---- MODULE Spec2Model ----
(***************************************************************************)
(* Model of oil_spill_forecast_app.py: one run of the Streamlit script.    *)
(* The script is straight-line code; each action below is one statement    *)
(* group of the script, and pc is the position of the run in the file.     *)
(*                                                                         *)
(* Library calls (pandas resample, statsmodels adfuller / ARIMA) are       *)
(* modelled by what they do on the values the script hands them.  The      *)
(* numeric results of adfuller and of the ARIMA fit are kept symbolic: a   *)
(* result is a term recording the inputs it was computed from.             *)
(***************************************************************************)
EXTENDS Integers, Sequences, FiniteSets, TLC

VARIABLES csv, has_zone, df, selected_zones, monthly_data, adf, model,
          model_fit, forecast, rendered, ran, pc, err

vars == <<csv, has_zone, df, selected_zones, monthly_data, adf, model,
          model_fit, forecast, rendered, ran, pc, err>>

(***************************************************************************)
(* Bounds of the model.                                                    *)
(***************************************************************************)
\* rows of the CSV in the cleaning / zone-filter inputs
MaxRowsA == 2
\* records in the aggregation inputs (dates in one or several months, ties)
MaxRowsB == 3
\* number of consecutive months the last record of a calendar input ranges over
CalMonths == 26
\* significand width of the model's binary floating point (float64 has 53)
MantBits == 7

(***************************************************************************)
(* Program constants.                                                      *)
(***************************************************************************)
\* model_fit.forecast(steps=12)
ForecastSteps == 12
\* pd.date_range(..., periods=12, freq='ME')
IndexPeriods == 12
\* pd.DateOffset(months=1)
OffsetMonths == 1
\* ARIMA(..., order=(1, 1, 1))
ArimaOrder == <<1, 1, 1>>

(***************************************************************************)
(* Calendar: a timestamp is a calendar date [y, m, d].                     *)
(***************************************************************************)
MkDate(y, m, d) == [y |-> y, m |-> m, d |-> d]

IsLeap(y) == (y % 4 = 0 /\ y % 100 # 0) \/ y % 400 = 0

DaysInMonth(y, m) ==
    IF m = 2 THEN (IF IsLeap(y) THEN 29 ELSE 28)
    ELSE IF m \in {4, 6, 9, 11} THEN 30 ELSE 31

\* months since year 0: the calendar month a timestamp lies in
MonthIdx(t) == t.y * 12 + (t.m - 1)

\* the month-end timestamp of month number idx (what freq='ME' labels with)
MonthEndOf(idx) ==
    LET y == idx \div 12
        m == (idx % 12) + 1
    IN MkDate(y, m, DaysInMonth(y, m))

\* total order of timestamps
DateKey(t) == MonthIdx(t) * 32 + t.d

\* DateOffsetMonths with a fault: the offset is dropped
DateOffsetNone(t, n) == t

\* t + pd.DateOffset(months=n): the month advances, the day is clipped to
\* the length of the target month
DateOffsetMonths(t, n) ==
    LET idx == MonthIdx(t) + n
        y == idx \div 12
        m == (idx % 12) + 1
        dim == DaysInMonth(y, m)
    IN MkDate(y, m, IF t.d < dim THEN t.d ELSE dim)

\* pd.date_range(start, periods, freq='ME'): start rolled forward to its
\* month end, then the following month ends
date_range_ME(start, periods) ==
    [k \in 1..periods |-> MonthEndOf(MonthIdx(start) + k - 1)]

(***************************************************************************)
(* Floating point: values are integers kept to MantBits significant bits,  *)
(* round-to-nearest, ties-to-even (IEEE binary arithmetic without          *)
(* underflow).                                                             *)
(***************************************************************************)
Pow2(n) == IF n = 0 THEN 1 ELSE 2 ^ n

Abs(x) == IF x < 0 THEN 0 - x ELSE x

RECURSIVE ExpOf(_, _)
\* the exponent e with a < 2^(MantBits+e), for a >= 0
ExpOf(a, e) == IF a < Pow2(MantBits + e) THEN e ELSE ExpOf(a, e + 1)

fl(x) ==
    LET a == Abs(x)
        e == ExpOf(a, 0)
    IN IF e = 0 THEN x
       ELSE LET q == a \div Pow2(e)
                r == a % Pow2(e)
                half == Pow2(e - 1)
                up == r > half \/ (r = half /\ q % 2 = 1)
                v == (IF up THEN q + 1 ELSE q) * Pow2(e)
            IN IF x < 0 THEN 0 - v ELSE v

RECURSIVE KahanFrom(_, _, _, _)
\* pandas group_sum: compensated summation in row order
KahanFrom(vals, i, sumx, comp) ==
    IF i > Len(vals) THEN sumx
    ELSE LET y == fl(vals[i] - comp)
             t == fl(sumx + y)
             c == fl(fl(t - sumx) - y)
         IN KahanFrom(vals, i + 1, t, c)

\* the 'sum' aggregation of one bin; an empty bin sums to 0 (min_count=0)
group_sum(vals) == KahanFrom(vals, 1, 0, 0)

(***************************************************************************)
(* load_data                                                               *)
(***************************************************************************)
\* An optional cell is <<>> (missing / unparseable) or <<value>>.
IsNull(cell) == Len(cell) = 0

zonal_office_names ==
    [k \in {"ak", "by", "kd", "lg", "ph", "uy", "wa"} |->
        CASE k = "ak" -> "Akure"
          [] k = "by" -> "Bayelsa"
          [] k = "kd" -> "Kaduna"
          [] k = "lg" -> "Lagos"
          [] k = "ph" -> "Port Harcourt"
          [] k = "uy" -> "Uyo"
          [] k = "wa" -> "Warri"]

\* str.lower() on the zone codes the inputs use
Lower(z) == IF z = "LG" THEN "lg" ELSE z

\* .str.lower().map(zonal_office_names).fillna(df['zonaloffice'])
MapZone(z) ==
    IF Lower(z) \in DOMAIN zonal_office_names
    THEN zonal_office_names[Lower(z)] ELSE z

\* PositiveQuantity with a fault: zero quantities are kept
NonNegativeQuantity(q) == q >= 0

\* df[df['estimatedquantity'] > 0]
PositiveQuantity(q) == q > 0

\* dropna(subset=[incidentdate, estimatedquantity(, location)]); location is
\* a string after astype(str), so it never drops a row
NotNa(row) == ~IsNull(row.incidentdate) /\ ~IsNull(row.estimatedquantity)

Keep(row) == NotNa(row) /\ PositiveQuantity(row.estimatedquantity[1])

Cleaned(row, zone) ==
    [incidentdate |-> row.incidentdate[1],
     estimatedquantity |-> row.estimatedquantity[1],
     zonaloffice |-> IF zone THEN MapZone(row.zonaloffice) ELSE row.zonaloffice]

load_data(rows, zone) ==
    LET kept == SelectSeq(rows, Keep)
    IN [i \in 1..Len(kept) |-> Cleaned(kept[i], zone)]

(***************************************************************************)
(* Zone filter                                                             *)
(***************************************************************************)
\* df['zonaloffice'].dropna().unique()
zonal_offices(frame) == {frame[i].zonaloffice : i \in 1..Len(frame)}

\* df[df['zonaloffice'].isin(selected_zones)]
isin_filter(frame, sel) == SelectSeq(frame, LAMBDA r : r.zonaloffice \in sel)

(***************************************************************************)
(* Monthly aggregation: set_index('incidentdate').resample('ME').agg(sum)  *)
(***************************************************************************)
RECURSIVE InsertByDate(_, _, _)
\* r goes after every row whose timestamp is not later (stable)
InsertByDate(s, r, i) ==
    IF i > Len(s) THEN Append(s, r)
    ELSE IF DateKey(s[i].incidentdate) > DateKey(r.incidentdate)
         THEN SubSeq(s, 1, i - 1) \o <<r>> \o SubSeq(s, i, Len(s))
         ELSE InsertByDate(s, r, i + 1)

RECURSIVE SortFrom(_, _, _)
SortFrom(s, i, acc) ==
    IF i > Len(s) THEN acc ELSE SortFrom(s, i + 1, InsertByDate(acc, s[i], 1))

\* SortByDate with a fault: the rows stay in input order
NoSort(s) == s

\* the time grouper sorts the rows by timestamp with a stable sort
SortByDate(s) == SortFrom(s, 1, <<>>)

\* InBin with a fault: bins closed on the left, (prev, label] -> [prev, label)
InBinLeftClosed(t, first, i) ==
    /\ (i = 1 \/ DateKey(MonthEndOf(first + i - 2)) <= DateKey(t))
    /\ DateKey(t) < DateKey(MonthEndOf(first + i - 1))

\* bin i of a series starting in month `first` holds the timestamps in
\* (label of bin i-1, label of bin i]: closed and labelled on the right
InBin(t, first, i) ==
    /\ (i = 1 \/ DateKey(MonthEndOf(first + i - 2)) < DateKey(t))
    /\ DateKey(t) <= DateKey(MonthEndOf(first + i - 1))

Quantities(rows) == [i \in 1..Len(rows) |-> rows[i].estimatedquantity]

\* resample_ME_sum with a fault: group-by month, no entry for an empty month
groupby_month_sum(frame) ==
    LET sorted == SortByDate(frame)
        first == IF Len(sorted) = 0 THEN 0 ELSE MonthIdx(sorted[1].incidentdate)
        last == IF Len(sorted) = 0 THEN 0 - 1
                ELSE MonthIdx(sorted[Len(sorted)].incidentdate)
        all == [i \in 1..(last - first + 1) |->
                  [date |-> MonthEndOf(first + i - 1),
                   total_volume |-> group_sum(Quantities(
                       SelectSeq(sorted, LAMBDA r : InBin(r.incidentdate, first, i))))]]
    IN SelectSeq(all, LAMBDA e : \E j \in 1..Len(sorted) :
                                    MonthIdx(sorted[j].incidentdate) = MonthIdx(e.date))

\* one entry per month-end from the month of the earliest row to the month
\* of the latest row; an empty frame gives an empty series
resample_ME_sum(frame) ==
    LET sorted == SortByDate(frame)
        first == IF Len(sorted) = 0 THEN 0 ELSE MonthIdx(sorted[1].incidentdate)
        last == IF Len(sorted) = 0 THEN 0 - 1
                ELSE MonthIdx(sorted[Len(sorted)].incidentdate)
    IN [i \in 1..(last - first + 1) |->
          [date |-> MonthEndOf(first + i - 1),
           total_volume |-> group_sum(Quantities(
               SelectSeq(sorted, LAMBDA r : InBin(r.incidentdate, first, i))))]]

Totals(md) == [i \in 1..Len(md) |-> md[i].total_volume]

Dates(md) == [i \in 1..Len(md) |-> md[i].date]

(***************************************************************************)
(* Stationarity diagnostic and forecast engine                             *)
(***************************************************************************)
SeqMax(x) == CHOOSE v \in {x[i] : i \in 1..Len(x)} : \A j \in 1..Len(x) : x[j] <= v

SeqMin(x) == CHOOSE v \in {x[i] : i \in 1..Len(x)} : \A j \in 1..Len(x) : x[j] >= v

\* AdfullerRaises with a fault: no check for a constant series
AdfullerRaisesNoConstantCheck(x) ==
    IF Len(x) = 0 THEN TRUE
    ELSE (Len(x) \div 2) - 1 - 1 < 0

\* adfuller(x) with its defaults (regression='c', autolag='AIC') raises
\* ValueError on an empty x (max of a zero-size array), on a constant x
\* (x.max() == x.min()), and when nobs // 2 - ntrend - 1 < 0 (sample too short)
AdfullerRaises(x) ==
    IF Len(x) = 0 THEN TRUE
    ELSE \/ SeqMax(x) = SeqMin(x)
         \/ (Len(x) \div 2) - 1 - 1 < 0

\* adf_stat, adf_pvalue, *_ = adfuller(monthly_data['total_volume'])
adfuller(x) ==
    << [fn |-> "adfuller", x |-> x, out |-> "adf_stat"],
       [fn |-> "adfuller", x |-> x, out |-> "adf_pvalue"] >>

\* ArimaInputs with a fault: the diagnostic is fed to the model as a regressor
ArimaInputsWithDiagnostic(md, diag) == [endog |-> Totals(md), exog |-> diag]

\* ARIMA(monthly_data['total_volume'], order=(1, 1, 1)): what the model is built from
ArimaInputs(md, diag) == [endog |-> Totals(md), exog |-> <<>>]

\* model_fit.forecast(steps=12): the point forecasts, as terms over the fit
point_forecast(fit, steps) ==
    [k \in 1..steps |-> [fn |-> "forecast", fit |-> fit, step |-> k]]

\* the new index of the forecast
forecast_index(md) ==
    date_range_ME(DateOffsetMonths(md[Len(md)].date, OffsetMonths), IndexPeriods)

(***************************************************************************)
(* Inputs: the CSV file and whether it has a zonaloffice column            *)
(***************************************************************************)
SeqsUpTo(S, n) == UNION {[1..k -> S] : k \in 0..n}

RawRow(t, q, z) == [incidentdate |-> t, estimatedquantity |-> q, zonaloffice |-> z]

\* cleaning and zone filter: missing dates, missing and zero quantities, zones
RowsA(zone) ==
    {RawRow(t, q, z) :
        t \in {<<>>, <<MkDate(2023, 12, 15)>>, <<MkDate(2024, 3, 10)>>},
        q \in {<<>>, <<0>>, <<2>>},
        z \in IF zone THEN {"LG", "zz"} ELSE {""}}

InputsA ==
    {[rows |-> r, zone |-> TRUE] : r \in SeqsUpTo(RowsA(TRUE), MaxRowsA)}
        \cup {[rows |-> r, zone |-> FALSE] : r \in SeqsUpTo(RowsA(FALSE), MaxRowsA)}

\* aggregation: first day, a day inside and the last day of a month, a gap of
\* two months across a year end, equal timestamps, sums that round
RowsB ==
    {RawRow(<<t>>, <<q>>, "") :
        t \in {MkDate(2023, 11, 5), MkDate(2023, 11, 30), MkDate(2024, 2, 1)},
        q \in {1, 200}}

InputsB == {[rows |-> r, zone |-> FALSE] : r \in SeqsUpTo(RowsB, MaxRowsB)}

\* calendar: a series from 2022-01 whose last month ranges over CalMonths
\* months from 2023-01 (28-, 29-, 30- and 31-day months, year ends)
InputsC ==
    {[rows |-> << RawRow(<<MkDate(2022, 1, 15)>>, <<5>>, ""),
                  RawRow(<<MkDate((2023 * 12 + k) \div 12, ((2023 * 12 + k) % 12) + 1, 28)>>,
                         <<3>>, "") >>,
      zone |-> FALSE] : k \in 0..(CalMonths - 1)}

\* the aggregation scenario of the specification, and a constant series
InputsD ==
    {[rows |-> << RawRow(<<MkDate(2021, 1, 5)>>, <<100>>, ""),
                  RawRow(<<MkDate(2021, 1, 20)>>, <<50>>, ""),
                  RawRow(<<MkDate(2021, 2, 10)>>, <<200>>, "") >>,
      zone |-> FALSE],
     [rows |-> << RawRow(<<MkDate(2023, 11, 5)>>, <<2>>, ""),
                  RawRow(<<MkDate(2023, 12, 5)>>, <<2>>, ""),
                  RawRow(<<MkDate(2024, 1, 5)>>, <<2>>, ""),
                  RawRow(<<MkDate(2024, 2, 5)>>, <<2>>, "") >>,
      zone |-> FALSE]}

Inputs == InputsA \cup InputsB \cup InputsC \cup InputsD

(***************************************************************************)
(* The run                                                                 *)
(***************************************************************************)
Init ==
    /\ \E in \in Inputs :
          /\ csv = in.rows
          /\ has_zone = in.zone
    /\ df = <<>>
    /\ selected_zones = {}
    /\ monthly_data = <<>>
    /\ adf = <<>>
    /\ model = <<>>
    /\ model_fit = <<>>
    /\ forecast = <<>>
    /\ rendered = <<>>
    /\ ran = <<>>
    /\ pc = "load"
    /\ err = <<>>

\* Successor with a fault: the forecast is taken before the fit
SuccessorForecastFirst(stage) ==
    CASE stage = "load" -> "filter"
      [] stage = "filter" -> "resample"
      [] stage = "resample" -> "chart"
      [] stage = "chart" -> "adf"
      [] stage = "adf" -> "adf_show"
      [] stage = "adf_show" -> "model"
      [] stage = "model" -> "forecast"
      [] stage = "forecast" -> "fit"
      [] stage = "fit" -> "reindex"
      [] stage = "reindex" -> "plot"
      [] stage = "plot" -> "done"

\* the statement that follows each statement of the script
Successor(stage) ==
    CASE stage = "load" -> "filter"
      [] stage = "filter" -> "resample"
      [] stage = "resample" -> "chart"
      [] stage = "chart" -> "adf"
      [] stage = "adf" -> "adf_show"
      [] stage = "adf_show" -> "model"
      [] stage = "model" -> "fit"
      [] stage = "fit" -> "forecast"
      [] stage = "forecast" -> "reindex"
      [] stage = "reindex" -> "plot"
      [] stage = "plot" -> "done"

\* stage runs to its end and the script goes on
Completes(stage) ==
    /\ pc' = Successor(stage)
    /\ ran' = Append(ran, stage)
    /\ err' = err

\* stage raises: nothing catches, the run of the script ends there
Raises(stage, exc) ==
    /\ pc' = "failed"
    /\ ran' = Append(ran, stage)
    /\ err' = <<[stage |-> stage, exc |-> exc]>>

Widget(kind, data) == [widget |-> kind, data |-> data]

\* df = load_data()
LoadData ==
    /\ pc = "load"
    /\ df' = load_data(csv, has_zone)
    /\ Completes("load")
    /\ UNCHANGED <<csv, has_zone, selected_zones, monthly_data, adf, model,
                   model_fit, forecast, rendered>>

\* if 'zonaloffice' in df.columns: the user's multiselect, then isin
ZoneFilter ==
    /\ pc = "filter"
    /\ has_zone
    /\ \E sel \in SUBSET zonal_offices(df) :
          /\ selected_zones' = sel
          /\ df' = isin_filter(df, sel)
    /\ Completes("filter")
    /\ UNCHANGED <<csv, has_zone, monthly_data, adf, model, model_fit,
                   forecast, rendered>>

\* no zonaloffice column: the block is skipped
NoZoneFilter ==
    /\ pc = "filter"
    /\ ~has_zone
    /\ pc' = Successor("filter")
    /\ UNCHANGED <<csv, has_zone, df, selected_zones, monthly_data, adf, model,
                   model_fit, forecast, rendered, ran, err>>

\* monthly_data = df.set_index(...).resample('ME').agg(...).rename(...)
MonthlyAggregate ==
    /\ pc = "resample"
    /\ monthly_data' = resample_ME_sum(df)
    /\ Completes("resample")
    /\ UNCHANGED <<csv, has_zone, df, selected_zones, adf, model, model_fit,
                   forecast, rendered>>

\* st.line_chart(monthly_data)
SeriesChart ==
    /\ pc = "chart"
    /\ rendered' = Append(rendered, Widget("line_chart", monthly_data))
    /\ Completes("chart")
    /\ UNCHANGED <<csv, has_zone, df, selected_zones, monthly_data, adf, model,
                   model_fit, forecast>>

\* adfuller(monthly_data['total_volume']) returns
AdfTest ==
    /\ pc = "adf"
    /\ ~AdfullerRaises(Totals(monthly_data))
    /\ adf' = adfuller(Totals(monthly_data))
    /\ Completes("adf")
    /\ UNCHANGED <<csv, has_zone, df, selected_zones, monthly_data, model,
                   model_fit, forecast, rendered>>

\* adfuller(monthly_data['total_volume']) raises
AdfTestRaises ==
    /\ pc = "adf"
    /\ AdfullerRaises(Totals(monthly_data))
    /\ Raises("adf", "ValueError")
    /\ UNCHANGED <<csv, has_zone, df, selected_zones, monthly_data, adf, model,
                   model_fit, forecast, rendered>>

\* st.markdown(ADF Statistic), st.markdown(p-value)
AdfShow ==
    /\ pc = "adf_show"
    /\ rendered' = rendered \o << Widget("markdown", <<adf[1]>>),
                                  Widget("markdown", <<adf[2]>>) >>
    /\ Completes("adf_show")
    /\ UNCHANGED <<csv, has_zone, df, selected_zones, monthly_data, adf, model,
                   model_fit, forecast>>

\* model = ARIMA(monthly_data['total_volume'], order=(1, 1, 1))
BuildModel ==
    /\ pc = "model"
    /\ model' = << [inputs |-> ArimaInputs(monthly_data, adf), order |-> ArimaOrder] >>
    /\ Completes("model")
    /\ UNCHANGED <<csv, has_zone, df, selected_zones, monthly_data, adf,
                   model_fit, forecast, rendered>>

\* model_fit = model.fit(): the optimiser returns a fit
Fit ==
    /\ pc = "fit"
    /\ Len(model) > 0
    /\ model_fit' = << [fn |-> "fit", model |-> model[1]] >>
    /\ Completes("fit")
    /\ UNCHANGED <<csv, has_zone, df, selected_zones, monthly_data, adf, model,
                   forecast, rendered>>

\* model_fit = model.fit(): the numerical fit raises (a linear-algebra error)
FitRaises ==
    /\ pc = "fit"
    /\ Len(model) > 0
    /\ Raises("fit", "LinAlgError")
    /\ UNCHANGED <<csv, has_zone, df, selected_zones, monthly_data, adf, model,
                   model_fit, forecast, rendered>>

\* forecast = model_fit.forecast(steps=12); the index statsmodels gives the
\* result is not modelled, the next statement overwrites it
Forecast ==
    /\ pc = "forecast"
    /\ Len(model_fit) > 0
    /\ forecast' = << [index |-> <<>>,
                       values |-> point_forecast(model_fit[1], ForecastSteps)] >>
    /\ Completes("forecast")
    /\ UNCHANGED <<csv, has_zone, df, selected_zones, monthly_data, adf, model,
                   model_fit, rendered>>

\* forecast.index = pd.date_range(start=monthly_data.index[-1] + DateOffset(months=1), ...)
Reindex ==
    /\ pc = "reindex"
    /\ Len(forecast) > 0
    /\ forecast' = << [forecast[1] EXCEPT !.index = forecast_index(monthly_data)] >>
    /\ Completes("reindex")
    /\ UNCHANGED <<csv, has_zone, df, selected_zones, monthly_data, adf, model,
                   model_fit, rendered>>

\* the historical / forecast overlay, st.pyplot(fig)
PlotForecast ==
    /\ pc = "plot"
    /\ rendered' = Append(rendered, Widget("pyplot", <<monthly_data, forecast[1]>>))
    /\ Completes("plot")
    /\ UNCHANGED <<csv, has_zone, df, selected_zones, monthly_data, adf, model,
                   model_fit, forecast>>

Next ==
    \/ LoadData
    \/ ZoneFilter
    \/ NoZoneFilter
    \/ MonthlyAggregate
    \/ SeriesChart
    \/ AdfTest
    \/ AdfTestRaises
    \/ AdfShow
    \/ BuildModel
    \/ Fit
    \/ FitRaises
    \/ Forecast
    \/ Reindex
    \/ PlotForecast

Spec == Init /\ [][Next]_vars

(***************************************************************************)
(* Vocabulary of the properties                                            *)
(***************************************************************************)
Ran(stage) == \E i \in 1..Len(ran) : ran[i] = stage

Failed == Len(err) > 0

IsMonthEnd(t) == t.d = DaysInMonth(t.y, t.m)

SameMonth(t, u) == t.y = u.y /\ t.m = u.m

\* the records of frame whose incident date lies in the calendar month of t
RecordsOfMonth(frame, t) ==
    SelectSeq(frame, LAMBDA r : SameMonth(r.incidentdate, t))

EarliestMonth(frame) ==
    CHOOSE a \in {MonthIdx(frame[i].incidentdate) : i \in 1..Len(frame)} :
        \A j \in 1..Len(frame) : a <= MonthIdx(frame[j].incidentdate)

LatestMonth(frame) ==
    CHOOSE a \in {MonthIdx(frame[i].incidentdate) : i \in 1..Len(frame)} :
        \A j \in 1..Len(frame) : a >= MonthIdx(frame[j].incidentdate)

RECURSIVE ExactSum(_, _)
\* the sum of vals[i..] in exact integer arithmetic
ExactSum(vals, i) == IF i > Len(vals) THEN 0 ELSE vals[i] + ExactSum(vals, i + 1)

Reorderings(frame) ==
    {[i \in 1..Len(frame) |-> frame[p[i]]] : p \in Permutations(1..Len(frame))}

DistinctTimestamps(frame) ==
    \A i, j \in 1..Len(frame) :
        i # j => DateKey(frame[i].incidentdate) # DateKey(frame[j].incidentdate)

\* fewer than 2 points, or all volumes equal
Degenerate(md) ==
    Len(md) < 2 \/ \A i, j \in 1..Len(md) : md[i].total_volume = md[j].total_volume

\* the order of the stages the specification gives, rendering steps included
ClaimedOrder ==
    << "load", "filter", "resample", "chart", "adf", "adf_show", "model",
       "fit", "forecast", "reindex", "plot" >>

StageNo(stage) == CHOOSE i \in 1..Len(ClaimedOrder) : ClaimedOrder[i] = stage

Downstream(stage) ==
    {ClaimedOrder[i] : i \in (StageNo(stage) + 1)..Len(ClaimedOrder)}

(***************************************************************************)
(* C1: for a non-empty record set whose earliest record lies in month M1   *)
(* and latest in month Mn, the monthly series has exactly one entry for    *)
(* each calendar month M1..Mn (months without records included), each      *)
(* keyed by the last day of its month, strictly increasing in date.        *)
(***************************************************************************)
C1_OneEntryPerMonth ==
    (Ran("resample") /\ Len(df) > 0) =>
        LET lo == EarliestMonth(df)
            hi == LatestMonth(df)
        IN /\ Len(monthly_data) = hi - lo + 1
           /\ \A i \in 1..Len(monthly_data) :
                 /\ MonthIdx(monthly_data[i].date) = lo + i - 1
                 /\ IsMonthEnd(monthly_data[i].date)
           /\ \A i, j \in 1..Len(monthly_data) :
                 i < j => DateKey(monthly_data[i].date) < DateKey(monthly_data[j].date)

\* a series over a year end with a month that holds no record
C1_Witness ==
    /\ Ran("resample")
    /\ Len(monthly_data) >= 4
    /\ monthly_data[1].date.y < monthly_data[Len(monthly_data)].date.y
    /\ \E i \in 1..Len(monthly_data) :
          Len(RecordsOfMonth(df, monthly_data[i].date)) = 0

(***************************************************************************)
(* C2: total_volume of every month of the series is the sum of             *)
(* estimated_quantity over exactly the records of that calendar month      *)
(* (the floating-point sum pandas computes, in date order; the exact sum   *)
(* whenever that needs no rounding), 0 for a month without records; the    *)
(* records (2021-01-05, 100), (2021-01-20, 50), (2021-02-10, 200) give     *)
(* (2021-01-31, 150), (2021-02-28, 200).                                   *)
(***************************************************************************)
C2_MonthlyTotals ==
    Ran("resample") =>
        /\ \A i \in 1..Len(monthly_data) :
              LET qs == Quantities(RecordsOfMonth(SortByDate(df), monthly_data[i].date))
              IN /\ monthly_data[i].total_volume = group_sum(qs)
                 /\ ExactSum(qs, 1) < Pow2(MantBits) =>
                        monthly_data[i].total_volume = ExactSum(qs, 1)
                 /\ Len(qs) = 0 => monthly_data[i].total_volume = 0
        /\ df = << [incidentdate |-> MkDate(2021, 1, 5), estimatedquantity |-> 100,
                    zonaloffice |-> ""],
                   [incidentdate |-> MkDate(2021, 1, 20), estimatedquantity |-> 50,
                    zonaloffice |-> ""],
                   [incidentdate |-> MkDate(2021, 2, 10), estimatedquantity |-> 200,
                    zonaloffice |-> ""] >>
           => monthly_data = << [date |-> MkDate(2021, 1, 31), total_volume |-> 150],
                                [date |-> MkDate(2021, 2, 28), total_volume |-> 200] >>

\* a month with two records, one of them on the month's last day, and a month with none
C2_Witness ==
    /\ Ran("resample")
    /\ \E i, j \in 1..Len(monthly_data) :
          /\ Len(RecordsOfMonth(df, monthly_data[i].date)) >= 2
          /\ \E k \in 1..Len(df) : df[k].incidentdate = monthly_data[i].date
          /\ monthly_data[i].total_volume > 1
          /\ Len(RecordsOfMonth(df, monthly_data[j].date)) = 0
          /\ monthly_data[j].total_volume = 0

(***************************************************************************)
(* C3: once the forecast has its date index, it has exactly 12 entries,    *)
(* dated with the month ends of the 12 calendar months that follow the     *)
(* month of the last historical date L, strictly increasing, one month     *)
(* apart; a series ending 2023-12-31 gives 2024-01-31 .. 2024-12-31.       *)
(***************************************************************************)
C3_ForecastDates ==
    Ran("reindex") =>
        LET L == monthly_data[Len(monthly_data)].date
            idx == forecast[1].index
        IN /\ Len(idx) = 12
           /\ Len(forecast[1].values) = 12
           /\ MonthIdx(idx[1]) = MonthIdx(L) + 1
           /\ \A k \in 1..Len(idx) : IsMonthEnd(idx[k])
           /\ \A k \in 1..(Len(idx) - 1) :
                 /\ MonthIdx(idx[k + 1]) = MonthIdx(idx[k]) + 1
                 /\ DateKey(idx[k]) < DateKey(idx[k + 1])
           /\ L = MkDate(2023, 12, 31) =>
                 idx[1] = MkDate(2024, 1, 31) /\ idx[12] = MkDate(2024, 12, 31)

\* the series ends on January 31 of a leap year: the forecast starts on February 29
C3_Witness ==
    /\ Ran("reindex")
    /\ monthly_data[Len(monthly_data)].date = MkDate(2024, 1, 31)
    /\ forecast[1].index[1] = MkDate(2024, 2, 29)
    /\ forecast[1].index[12] = MkDate(2025, 1, 31)

(***************************************************************************)
(* C4: for an empty record set the Monthly Aggregator fails with           *)
(* EmptyInputError and no downstream stage (chart, diagnostic, fit,        *)
(* forecast, plot) executes.                                               *)
(***************************************************************************)
C4_EmptyInputFails ==
    (Ran("resample") /\ Len(df) = 0) =>
        /\ Failed
        /\ err[1] = [stage |-> "resample", exc |-> "EmptyInputError"]
        /\ \A s \in Downstream("resample") : ~Ran(s)

C6_FailFastNoPartialOutput ==
    Failed =>
        /\ pc = "failed"
        /\ ran[Len(ran)] = err[1].stage
        /\ \A s \in Downstream(err[1].stage) : ~Ran(s)
        /\ Cardinality({i \in 1..Len(ran) : ran[i] = err[1].stage}) = 1
        /\ rendered = <<>>

(***************************************************************************)
(* C7 as stated: the same records presented to the Monthly Aggregator in   *)
(* any order give an identical monthly series (same dates, same totals).   *)
(***************************************************************************)
C7_OrderIndependent ==
    pc = "chart" =>
        \A q \in Reorderings(df) : resample_ME_sum(q) = monthly_data

(***************************************************************************)
(* C7 as amended: the same records in any order give the same dates, and   *)
(* the same totals when no two records share a timestamp or when the sums  *)
(* need no rounding.                                                       *)
(***************************************************************************)
C7_OrderIndependentDates ==
    pc = "chart" =>
        \A q \in Reorderings(df) :
            /\ Dates(resample_ME_sum(q)) = Dates(monthly_data)
            /\ DistinctTimestamps(df) => resample_ME_sum(q) = monthly_data
            /\ ExactSum(Quantities(df), 1) < Pow2(MantBits) =>
                   resample_ME_sum(q) = monthly_data

\* records of distinct dates, presented latest first, over several months
C7_Witness ==
    /\ pc = "chart"
    /\ Len(df) >= 3
    /\ DistinctTimestamps(df)
    /\ DateKey(df[1].incidentdate) > DateKey(df[2].incidentdate)
    /\ Len(monthly_data) >= 2

(***************************************************************************)
(* C8: every record the Monthly Aggregator consumes has a non-null         *)
(* incident date and a strictly positive quantity; every total_volume is   *)
(* non-negative, and the first and the last entry of a non-empty series    *)
(* are strictly positive.                                                  *)
(***************************************************************************)
C8_ValidRecords ==
    /\ Ran("load") =>
          \A i \in 1..Len(df) :
              /\ df[i].estimatedquantity > 0
              /\ \E j \in 1..Len(csv) :
                    /\ csv[j].incidentdate = <<df[i].incidentdate>>
                    /\ csv[j].estimatedquantity = <<df[i].estimatedquantity>>
    /\ Ran("resample") =>
          /\ \A i \in 1..Len(monthly_data) : monthly_data[i].total_volume >= 0
          /\ Len(monthly_data) > 0 =>
                /\ monthly_data[1].total_volume > 0
                /\ monthly_data[Len(monthly_data)].total_volume > 0

\* rows were dropped by the cleaning and by the zone filter, one record is left
C8_Witness ==
    /\ Ran("resample")
    /\ has_zone
    /\ Len(csv) = 2
    /\ \E i \in 1..Len(csv) : csv[i].estimatedquantity = <<0>>
    /\ Len(df) = 1
    /\ Len(monthly_data) = 1

(***************************************************************************)
(* C9: the stages run one after the other, each at most once, in the       *)
(* order zone filter, aggregation, diagnostic, fit, forecast, date index;  *)
(* the engine goes Unfit, Fit, Done; no forecast before the fit; no stage  *)
(* after the aggregation starts before the series is built.                *)
(***************************************************************************)
C9_StageOrder ==
    /\ \A i, j \in 1..Len(ran) : i < j => StageNo(ran[i]) < StageNo(ran[j])
    /\ Len(forecast) > 0 => Len(model_fit) > 0
    /\ Len(model_fit) > 0 => Len(model) > 0
    /\ pc = "forecast" => Len(model_fit) > 0
    /\ pc = "fit" => Len(model) > 0 /\ Len(model_fit) = 0
    /\ pc \in Downstream("resample") =>
          Ran("resample") /\ monthly_data = resample_ME_sum(df)

\* a complete run, zone filter included
C9_Witness ==
    /\ pc = "done"
    /\ ran = ClaimedOrder

(***************************************************************************)
(* C10: the diagnostic and the forecast engine leave the monthly series    *)
(* as the aggregation built it (the date index is written onto the         *)
(* forecast only), and the forecast is computed from the monthly series    *)
(* alone, not from the diagnostic's statistic or p-value.                  *)
(***************************************************************************)
C10_SeriesUntouched ==
    Ran("chart") =>
        /\ rendered[1] = Widget("line_chart", monthly_data)
        /\ monthly_data = resample_ME_sum(df)
        /\ Len(model) > 0 =>
              model[1].inputs = [endog |-> Totals(monthly_data), exog |-> <<>>]
        /\ Len(forecast) > 0 =>
              \A k \in 1..Len(forecast[1].values) :
                  forecast[1].values[k].fit.model.inputs =
                      [endog |-> Totals(monthly_data), exog |-> <<>>]

\* the forecast was produced and dated after a diagnostic that returned
C10_Witness ==
    /\ Ran("reindex")
    /\ Len(adf) = 2
    /\ Len(forecast[1].index) = 12
    /\ Len(monthly_data) >= 4

====
